---- MODULE Spec2Model ----
(***************************************************************************)
(* Transition cost core of the meili map matcher                           *)
(* (src/meili/transition_cost_model.cc).                                   *)
(*                                                                         *)
(* Number representation.  The code computes in float.  The model keeps    *)
(* every length, duration and turn cost as an integer count of HALVES      *)
(* (1 m = 2, 0.5 m = 1, 1 s = 2), so that values that are not whole        *)
(* numbers exist and std::ceil is a real operation.  The two route         *)
(* factors and beta are whole numbers.  A value returned by operator()     *)
(* is kept as its numerator over the denominator 2 * beta (ResultDen), so  *)
(* the product with inv_beta = 1 / beta is exact: the float 32.0 with      *)
(* beta = 5 is the integer 320, and the sentinel -1.f is -ResultDen.       *)
(* Float rounding, infinities and NaN are outside the model.               *)
(***************************************************************************)
EXTENDS Integers, Sequences, FiniteSets, TLC

\* Number of time columns of the trace.
NumColumns == 3

\* Largest number of candidate States in one column.
MaxStates == 2

\* Cap of the per-State counters of expander invocations and SetRoute calls.
MaxExpand == 2

VARIABLES
    phase,        \* "new" | "ready" | "invalid_argument" | "crashed"
    config,       \* the five numeric constructor arguments
    measurement,  \* get_measurement_: time -> Measurement
    states,       \* get_column_: StateId -> State (routed, labelset, label_idx)
    pred,         \* vs_.Predecessor: StateId -> StateId
    expandCount,  \* per left StateId: number of find_shortest_path invocations
    setCount,     \* per StateId: number of SetRoute calls on that State
    lastCall,     \* the most recent operator() call: its arguments, how it ended, and
                  \* the find_shortest_path invocation it made, if any
    watch,        \* one earlier operator() call that returned, kept for comparison
    driver,       \* position of the naive Viterbi driver: its time step and the calls made in it
    cli           \* parse_common_args: its arguments, the configuration and its outcome

coreVars == <<phase, config, measurement, states, pred, expandCount, setCount, lastCall>>

vars == <<phase, config, measurement, states, pred, expandCount, setCount, lastCall,
          watch, driver, cli>>

----------------------------------------------------------------------------
\* Arithmetic on halves

Abs(x) == IF x < 0 THEN -x ELSE x

Min(a, b) == IF a <= b THEN a ELSE b

Max(a, b) == IF a >= b THEN a ELSE b

\* std::ceil of a value held in halves: the least whole number (even count) >= x
Ceil(x) == IF x % 2 = 0 THEN x ELSE x + 1

\* the float literal 1.f, in halves
One == 2

----------------------------------------------------------------------------
\* The matcher's data: columns, StateIds, measurements

Times == 0 .. (NumColumns - 1)

\* Number of States of the column at time t: columns alternate between
\* MaxStates - 1 and MaxStates candidates, so a left column can be larger
\* than its right column and a right column can hold several States.
ColumnSize(t) == IF t % 2 = 0 THEN MaxStates - 1 ELSE MaxStates

StateId(t, i) == [time |-> t, id |-> i]

InvalidStateId == [time |-> -1, id |-> -1]

IsValid(sid) == sid.time >= 0 /\ sid.id >= 0

\* ids of the column at time t, in column order
ColumnIds(t) == 0 .. (ColumnSize(t) - 1)

Column(t) == [i \in 1 .. ColumnSize(t) |-> StateId(t, i - 1)]

ColumnStateIds(t) == {StateId(t, i) : i \in ColumnIds(t)}

AllStateIds == UNION {ColumnStateIds(t) : t \in Times}

MeasurementSet ==
    { [lnglat |-> 0,   epoch_time |-> 0],
      [lnglat |-> 200, epoch_time |-> 20] }

\* Time-ordered traces that start at the first measurement and end at the
\* second: one step of the trace moves, the others are coincident.
Traces == { m \in [Times -> MeasurementSet] :
              /\ m[0].epoch_time < m[NumColumns - 1].epoch_time
              /\ \A t \in Times : t + 1 \in Times => m[t].epoch_time <= m[t + 1].epoch_time }

ValidConfigs ==
    { [beta |-> 5, breakage_distance |-> 4000, max_route_distance_factor |-> 3,
       max_route_time_factor |-> 2, turn_penalty_factor |-> 0],
      [beta |-> 1, breakage_distance |-> 1, max_route_distance_factor |-> 5,
       max_route_time_factor |-> 2, turn_penalty_factor |-> 2] }

InvalidConfigs ==
    { [beta |-> 0, breakage_distance |-> 4000, max_route_distance_factor |-> 3,
       max_route_time_factor |-> 2, turn_penalty_factor |-> 0],
      [beta |-> -1, breakage_distance |-> 4000, max_route_distance_factor |-> 3,
       max_route_time_factor |-> 2, turn_penalty_factor |-> 0],
      [beta |-> 1, breakage_distance |-> 4000, max_route_distance_factor |-> 3,
       max_route_time_factor |-> 2, turn_penalty_factor |-> -1] }

ConfigSet == ValidConfigs \cup InvalidConfigs

----------------------------------------------------------------------------
\* The constructor: validation and the turn cost table

\* Variant of ConstructFails: beta = 0 is accepted
ConstructFailsBelowZero(c) == c.beta < 0 \/ c.turn_penalty_factor < 0

\* The two throws of the constructor: beta_ <= 0.f, turn_penalty_factor_ < 0.f
ConstructFails(c) == c.beta <= 0 \/ c.turn_penalty_factor < 0

\* The largest index of turn_cost_table_: for (int i = 0; i <= 180; ++i)
MaxAngle == 180

\* std::exp(-i/45.f) for i = 0 .. 180, in millionths (six decimals)
ExpTable ==
    << 1000000, 978023, 956529, 935507, 914947, 894839, 875173, 855940, 837128, 818731,
       800737, 783139, 765928, 749095, 732632, 716531, 700784, 685383, 670320, 655588,
       641180, 627089, 613307, 599829, 586646, 573753, 561144, 548812, 536750, 524954,
       513417, 502134, 491098, 480305, 469750, 459426, 449329, 439454, 429796, 420350,
       411112, 402077, 393241, 384598, 376146, 367879, 359795, 351887, 344154, 336590,
       329193, 321958, 314883, 307962, 301194, 294575, 288101, 281769, 275577, 269520,
       263597, 257804, 252138, 246597, 241177, 235877, 230693, 225623, 220665, 215815,
       211072, 206433, 201897, 197459, 193120, 188876, 184725, 180665, 176694, 172811,
       169013, 165299, 161666, 158113, 154638, 151240, 147916, 144665, 141486, 138376,
       135335, 132361, 129452, 126607, 123825, 121103, 118442, 115839, 113293, 110803,
       108368, 105986, 103657, 101379, 99151, 96972, 94841, 92756, 90718, 88724,
       86774, 84867, 83002, 81178, 79394, 77649, 75943, 74274, 72641, 71045,
       69483, 67956, 66463, 65002, 63574, 62177, 60810, 59474, 58167, 56888,
       55638, 54415, 53219, 52050, 50906, 49787, 48693, 47623, 46576, 45553,
       44551, 43572, 42615, 41678, 40762, 39866, 38990, 38133, 37295, 36476,
       35674, 34890, 34123, 33373, 32640, 31922, 31221, 30535, 29864, 29207,
       28566, 27938, 27324, 26723, 26136, 25562, 25000, 24450, 23913, 23387,
       22873, 22371, 21879, 21398, 20928, 20468, 20018, 19578, 19148, 18727,
       18316 >>

\* The value 1.0 in the unit of ExpTable
ExpScale == ExpTable[1]

ExpNeg(i) == ExpTable[i + 1]

\* Variant of InLoop: the loop stops before i = 180
InLoopExclusive(i) == 0 <= i /\ i < MaxAngle

\* The indices the constructor's loop assigns
InLoop(i) == 0 <= i /\ i <= MaxAngle

\* turn_cost_table_[i] after construction, in millionths of a half: the array
\* starts as zeros and the loop runs only if 0.f < turn_penalty_factor_
turn_cost_table(i) ==
    IF 0 < config.turn_penalty_factor /\ InLoop(i)
    THEN config.turn_penalty_factor * ExpNeg(i)
    ELSE 0

----------------------------------------------------------------------------
\* Labels, paths of the road graph, States

NoLabel == [distance |-> -1, cost |-> -1, secs |-> -1, turn_cost |-> -1]

\* Paths the road graph may offer between two candidates; a Label reached
\* over a path carries the path's accumulated distance, cost, time and the
\* turn cost at its last edge.
ZeroPath     == [distance |-> 0,   cost |-> 0,   secs |-> 0,  turn_cost |-> 0]
StraightPath == [distance |-> 200, cost |-> 200, secs |-> 20, turn_cost |-> 0]
DetourPath   == [distance |-> 500, cost |-> 500, secs |-> 40, turn_cost |-> 0]
MarginPath   == [distance |-> 2,   cost |-> 2,   secs |-> 20, turn_cost |-> 2]

\* The sets of paths the graph may hold between an origin and a destination
PathSets == << {}, {ZeroPath}, {StraightPath}, {DetourPath}, {MarginPath, DetourPath} >>

\* a label_idx_ map with no entry
EmptyMap == [s \in {} |-> NoLabel]

NewState == [routed |-> FALSE, labelset |-> FALSE, label_idx |-> EmptyMap]

NoExpansion ==
    [destinations |-> << >>, edgelabel |-> NoLabel, max_route_distance |-> 0,
     max_route_time |-> 0, capacity |-> 0, graph_time |-> -1, graph |-> EmptyMap]

\* No call is being watched
NoWatch == [lhs |-> InvalidStateId, rhs |-> InvalidStateId, result |-> 0, excluded |-> FALSE]

\* The naive driver has not started
NoDriver == [time |-> -1, called |-> {}]

\* parse_common_args is not part of the run
NoCli == [pc |-> "none"]

NoCall ==
    [lhs |-> InvalidStateId, rhs |-> InvalidStateId, outcome |-> "none", result |-> 0,
     looked |-> InvalidStateId, label |-> NoLabel, expanded |-> FALSE,
     expansion |-> NoExpansion]

----------------------------------------------------------------------------
\* Geometry and time primitives (measurements lie on one line, so the
\* great-circle distance is the absolute difference of their positions)

GreatCircleDistance(left, right) == Abs(left.lnglat - right.lnglat)

ClockDistance(left, right) == right.epoch_time - left.epoch_time

----------------------------------------------------------------------------
\* State (meili/state.h) and the shortest-path expander (meili/routing.h)

\* State::last_label(state): the label cached for the StateId sid, or null
last_label(state, sid) ==
    IF sid \in DOMAIN state.label_idx THEN state.label_idx[sid] ELSE NoLabel

\* The best label the expander reaches over a set of paths: paths whose
\* distance exceeds the distance ceiling (or the LabelSet's capacity) or whose
\* time exceeds the time ceiling are pruned; the lowest cost wins.
BestLabel(paths, capacity, max_distance, max_time) ==
    LET kept == {p \in paths : /\ p.distance <= max_distance
                               /\ p.distance <= capacity
                               /\ p.secs <= max_time}
    IN  IF kept = {} THEN NoLabel
        ELSE CHOOSE p \in kept : \A q \in kept : p.cost <= q.cost

\* find_shortest_path: results[i] is the label reached for destination i
\* (locations[i], locations[0] being the origin), NoLabel for "unreached".
find_shortest_path(destinations, graph, capacity, max_distance, max_time) ==
    [i \in 1 .. Len(destinations) |->
        BestLabel(graph[destinations[i]], capacity, max_distance, max_time)]

\* State::SetRoute(stateids, results, labelset)
SetRoute(stateids, results) ==
    LET reached == {i \in 1 .. Len(stateids) : results[i] # NoLabel}
    IN  [routed |-> TRUE,
         labelset |-> TRUE,
         label_idx |-> [s \in {stateids[i] : i \in reached} |->
                          results[CHOOSE i \in reached : stateids[i] = s]]]

\* Denominator of a returned value: 2 * beta
ResultDen == One * config.beta

\* The sentinel -1.f
NoTransition == -ResultDen

\* CalculateTransitionCost (meili/transition_cost_model.h), as a numerator
\* over ResultDen:  turn_cost + inv_beta * (|route - gc| + |time - clk|)
CalculateTransitionCost(turn_cost, route_distance, great_circle_distance, route_time, clock_distance) ==
    turn_cost * config.beta
      + Abs(route_distance - great_circle_distance)
      + Abs(route_time - clock_distance)

----------------------------------------------------------------------------
\* TransitionCostModel::operator() and TransitionCostModel::UpdateRoute

\* The index at which `right` is taken from the column at rhs.time():
\*   const auto& right = get_column_(rhs.time())[lhs.id()];
RightIndex(lhs, rhs) == lhs.id

\* Whether that index lies inside the column at rhs.time()
RightInBounds(lhs, rhs) == RightIndex(lhs, rhs) \in ColumnIds(rhs.time)

\* right.stateid(): the StateId of the element at RightIndex when it is inside
\* the column; otherwise the read is past the end of the column and yields
\* whatever lies there (garbage).
RightStateId(lhs, rhs, garbage) ==
    IF RightInBounds(lhs, rhs) THEN StateId(rhs.time, RightIndex(lhs, rhs)) ELSE garbage

\* The column elements operator() and UpdateRoute index for the call
\* cost(lhs, rhs): get_column_(lhs.time())[lhs.id()] and
\* get_column_(rhs.time())[lhs.id()]
ColumnAccesses(lhs, rhs) ==
    {[time |-> lhs.time, index |-> lhs.id],
     [time |-> rhs.time, index |-> RightIndex(lhs, rhs)]}

\* Variant of ShouldRoute: UpdateRoute is called whether or not left is routed
ShouldRouteAlways(left) == TRUE

\* if (!left.routed()) UpdateRoute(lhs, rhs);
ShouldRoute(left) == ~left.routed

\* Variant of PredecessorNotRouted: the negation of routed() is missing
PredecessorNotRoutedNegated(lhs) ==
    /\ IsValid(pred[lhs])
    /\ states[pred[lhs]].routed

\* Variant of PredecessorNotRouted: the routed() check of the predecessor is missing
PredecessorNeverChecked(lhs) == FALSE

\* prev_stateid.IsValid() && !prev_state.routed(): the logic_error case
PredecessorNotRouted(lhs) ==
    /\ IsValid(pred[lhs])
    /\ ~states[pred[lhs]].routed

\* Variant of SeedEdgeLabel: edgelabel stays nullptr
SeedEdgeLabelNull(lhs) == NoLabel

\* The inbound edgelabel: null without a predecessor, else prev_state.last_label(left)
SeedEdgeLabel(lhs) ==
    IF IsValid(pred[lhs]) THEN last_label(states[pred[lhs]], lhs) ELSE NoLabel

\* unreached_stateids: the States of the right column without a Viterbi
\* predecessor, in column order (locations is the left candidate followed
\* by their candidates)
UnreachedStateIds(t) ==
    SelectSeq(Column(t), LAMBDA s : ~IsValid(pred[s]))

\* Variant of MaxRouteDistance: the std::min with breakage_distance_ is missing
MaxRouteDistanceUnclamped(gc_dist) == gc_dist * config.max_route_distance_factor

\* std::min(gc_dist * max_route_distance_factor_, breakage_distance_)
MaxRouteDistance(gc_dist) ==
    Min(gc_dist * config.max_route_distance_factor, config.breakage_distance)

\* clk_dist * max_route_time_factor_
MaxRouteTime(clk_dist) == clk_dist * config.max_route_time_factor

\* Variant of LabelSetCapacity: the std::max with 1.f is missing
LabelSetCapacityNoFloor(max_route_distance) == Ceil(max_route_distance)

\* std::make_shared<LabelSet>(std::max(std::ceil(max_route_distance), 1.f))
LabelSetCapacity(max_route_distance) == Max(Ceil(max_route_distance), One)

\* the distance ceiling given to find_shortest_path: std::ceil(max_route_distance)
DistanceCeiling(max_route_distance) == Ceil(max_route_distance)

\* the time ceiling given to find_shortest_path: std::ceil(max_route_time)
TimeCeiling(max_route_time) == Ceil(max_route_time)

\* Variant of RouteTarget: SetRoute is called on the State of rhs
RouteTargetRight(lhs, rhs) == rhs

\* The State UpdateRoute writes: left.SetRoute(...), left being the State of lhs
RouteTarget(lhs, rhs) == lhs

\* Variant of TransitionCost: ClockDistance is given the measurements in the
\* wrong order
TransitionCostSwappedMeasurements(label, lhs, rhs) ==
    IF label # NoLabel
    THEN CalculateTransitionCost(
             label.turn_cost,
             label.cost,
             GreatCircleDistance(measurement[lhs.time], measurement[rhs.time]),
             label.secs,
             ClockDistance(measurement[rhs.time], measurement[lhs.time]))
    ELSE NoTransition

\* Variant of TransitionCost: "no path found" returns 0.f instead of -1.f
TransitionCostZeroSentinel(label, lhs, rhs) ==
    IF label # NoLabel
    THEN CalculateTransitionCost(
             label.turn_cost,
             label.cost,
             GreatCircleDistance(measurement[lhs.time], measurement[rhs.time]),
             label.secs,
             ClockDistance(measurement[lhs.time], measurement[rhs.time]))
    ELSE 0

\* The value operator() returns for the label it looked up
TransitionCost(label, lhs, rhs) ==
    IF label # NoLabel
    THEN CalculateTransitionCost(
             label.turn_cost,
             label.cost,
             GreatCircleDistance(measurement[lhs.time], measurement[rhs.time]),
             label.secs,
             ClockDistance(measurement[lhs.time], measurement[rhs.time]))
    ELSE NoTransition

\* What a read past the end of a column can yield as a StateId: an invalid
\* StateId, or the StateId of a State stored elsewhere (here the first State
\* of the first or of the last column)
Garbage == {InvalidStateId, StateId(0, 0), StateId(NumColumns - 1, 0)}

\* The graphs the expander may find between the left candidate and the
\* States of the column at time t: a set of paths for each of them, the
\* States of one column taking consecutive entries of PathSets
Graphs(t) ==
    { [s \in ColumnStateIds(t) |-> PathSets[((k + s.id) % Len(PathSets)) + 1]] :
        k \in 1 .. Len(PathSets) }

\* The record of one find_shortest_path invocation by UpdateRoute(lhs, rhs),
\* the right column being the one at time t
Expand(lhs, rhs, t, graph) ==
    LET left_measurement == measurement[lhs.time]
        right_measurement == measurement[rhs.time]
        gc_dist == GreatCircleDistance(left_measurement, right_measurement)
        max_route_distance == MaxRouteDistance(gc_dist)
        clk_dist == ClockDistance(left_measurement, right_measurement)
        max_route_time == MaxRouteTime(clk_dist)
    IN  [destinations |-> UnreachedStateIds(t),
         edgelabel |-> SeedEdgeLabel(lhs),
         max_route_distance |-> DistanceCeiling(max_route_distance),
         max_route_time |-> TimeCeiling(max_route_time),
         capacity |-> LabelSetCapacity(max_route_distance),
         graph_time |-> t,
         graph |-> graph]

\* The results find_shortest_path returns for the invocation e
Results(e) ==
    find_shortest_path(e.destinations, e.graph, e.capacity,
                       e.max_route_distance, e.max_route_time)

----------------------------------------------------------------------------
\* Actions

Init ==
    /\ phase = "new"
    /\ config \in ConfigSet
    /\ measurement \in Traces
    /\ states = [s \in AllStateIds |-> NewState]
    /\ pred = [s \in AllStateIds |-> InvalidStateId]
    /\ expandCount = [s \in AllStateIds |-> 0]
    /\ setCount = [s \in AllStateIds |-> 0]
    /\ lastCall = NoCall
    /\ watch = NoWatch
    /\ driver = NoDriver
    /\ cli = NoCli

\* TransitionCostModel::TransitionCostModel: validation of beta and
\* turn_penalty_factor (the turn cost table it fills is turn_cost_table)
Construct ==
    /\ phase = "new"
    /\ phase' = IF ConstructFails(config)
                THEN "invalid_argument"
                ELSE "ready"
    /\ UNCHANGED <<config, measurement, states, pred, expandCount, setCount, lastCall>>
    /\ UNCHANGED <<watch, driver, cli>>

\* The Viterbi search (external) records l, a State of the previous column,
\* as the predecessor of r.
SetPredecessor(r, l) ==
    /\ phase = "ready"
    /\ l.time + 1 = r.time
    /\ pred' = [pred EXCEPT ![r] = l]
    /\ UNCHANGED <<phase, config, measurement, states, expandCount, setCount, lastCall>>

\* One call cost(lhs, rhs) of operator(), UpdateRoute included.  garbage and
\* segv are the possible outcomes of reading `right` past the end of the right
\* column; graph is the road graph the expander finds.
Cost(lhs, rhs, garbage, segv, graph) ==
    LET left == states[lhs]
        route == ShouldRoute(left)
        right_stateid == RightStateId(lhs, rhs, garbage)
        call == [lhs |-> lhs, rhs |-> rhs, outcome |-> "ok", result |-> 0,
                 looked |-> right_stateid, label |-> NoLabel, expanded |-> FALSE,
                 expansion |-> NoExpansion]
    IN
    /\ phase = "ready"
    /\ lhs.time + 1 = rhs.time
    /\ IF route /\ PredecessorNotRouted(lhs)
       THEN \* throw std::logic_error before `right` is read
            /\ lastCall' = [call EXCEPT !.outcome = "logic_error", !.looked = InvalidStateId]
            /\ UNCHANGED <<phase, states, expandCount, setCount>>
       ELSE IF segv \/ (route /\ ~IsValid(right_stateid))
       THEN \* the read past the end faults, or get_column_ is asked for a garbage time
            /\ phase' = "crashed"
            /\ lastCall' = [call EXCEPT !.outcome = "crash", !.looked = InvalidStateId]
            /\ UNCHANGED <<states, expandCount, setCount>>
       ELSE IF route
       THEN LET e == Expand(lhs, rhs, right_stateid.time, graph)
                target == RouteTarget(lhs, rhs)
                routed_states ==
                    [states EXCEPT ![target] = SetRoute(e.destinations, Results(e))]
                label == last_label(routed_states[lhs], right_stateid)
            IN  /\ expandCount[lhs] < MaxExpand
                /\ setCount[target] < MaxExpand
                /\ expandCount' = [expandCount EXCEPT ![lhs] = @ + 1]
                /\ setCount' = [setCount EXCEPT ![target] = @ + 1]
                /\ states' = routed_states
                /\ lastCall' = [call EXCEPT !.label = label,
                                            !.result = TransitionCost(label, lhs, rhs),
                                            !.expanded = TRUE,
                                            !.expansion = e]
                /\ UNCHANGED phase
       ELSE LET label == last_label(left, right_stateid)
            IN  /\ lastCall' = [call EXCEPT !.label = label,
                                            !.result = TransitionCost(label, lhs, rhs)]
                /\ UNCHANGED <<phase, states, expandCount, setCount>>
    /\ UNCHANGED <<config, measurement, pred>>

\* The calls a driver can make: any left State and any State of the next column
CostCall ==
    \E lhs \in AllStateIds : \E rhs \in AllStateIds :
        /\ lhs.time + 1 = rhs.time
        /\ \E garbage \in (IF RightInBounds(lhs, rhs) THEN {InvalidStateId} ELSE Garbage) :
           \E segv \in (IF RightInBounds(lhs, rhs) THEN {FALSE} ELSE BOOLEAN) :
           \E graph \in (IF ShouldRoute(states[lhs]) /\ IsValid(RightStateId(lhs, rhs, garbage))
                         THEN Graphs(RightStateId(lhs, rhs, garbage).time)
                         ELSE {EmptyMap}) :
               /\ Cost(lhs, rhs, garbage, segv, graph)
               /\ UNCHANGED <<watch, driver, cli>>

ViterbiStep ==
    \E r \in AllStateIds : \E l \in AllStateIds :
        /\ SetPredecessor(r, l)
        /\ UNCHANGED <<watch, driver, cli>>

Next ==
    \/ Construct
    \/ ViterbiStep
    \/ CostCall

Spec == Init /\ [][Next]_vars

----------------------------------------------------------------------------
\* Any driver, with one of the calls that returned kept for comparison with
\* the calls made later

\* A call cost(lhs, rhs) that returns and is kept: its arguments, the value
\* it returned, and whether it was the call that routed lhs while rhs already
\* had a valid Viterbi predecessor
WatchedCostCall ==
    \E lhs \in AllStateIds : \E rhs \in AllStateIds :
        /\ lhs.time + 1 = rhs.time
        /\ watch = NoWatch
        /\ \E garbage \in (IF RightInBounds(lhs, rhs) THEN {InvalidStateId} ELSE Garbage) :
           \E segv \in (IF RightInBounds(lhs, rhs) THEN {FALSE} ELSE BOOLEAN) :
           \E graph \in (IF ShouldRoute(states[lhs]) /\ IsValid(RightStateId(lhs, rhs, garbage))
                         THEN Graphs(RightStateId(lhs, rhs, garbage).time)
                         ELSE {EmptyMap}) :
               Cost(lhs, rhs, garbage, segv, graph)
        /\ lastCall'.outcome = "ok"
        /\ watch' = [lhs |-> lhs, rhs |-> rhs, result |-> lastCall'.result,
                     excluded |-> lastCall'.expanded /\ IsValid(pred[rhs])]
        /\ UNCHANGED <<driver, cli>>

\* The accepted configurations without turn penalty, and the traces that
\* move in their first step
WatchInit ==
    /\ Init
    /\ config \in {c \in ValidConfigs : c.turn_penalty_factor = 0}
    /\ measurement[1] = measurement[NumColumns - 1]

WatchNext ==
    \/ Construct
    \/ ViterbiStep
    \/ CostCall
    \/ WatchedCostCall

WatchSpec == WatchInit /\ [][WatchNext]_vars

----------------------------------------------------------------------------
\* The naive Viterbi driver: columns in increasing time; within the step from
\* column t to column t + 1 it asks cost(l, r) for every l of column t and
\* every r of column t + 1, chooses predecessors of the States of column
\* t + 1 among the States of column t, and only then moves on.

\* The calls of one step
StepCalls(t) ==
    {[lhs |-> l, rhs |-> r] : l \in ColumnStateIds(t), r \in ColumnStateIds(t + 1)}

NaiveInit ==
    /\ phase = "new"
    /\ config \in ConfigSet
    /\ measurement \in Traces
    /\ states = [s \in AllStateIds |-> NewState]
    /\ pred = [s \in AllStateIds |-> InvalidStateId]
    /\ expandCount = [s \in AllStateIds |-> 0]
    /\ setCount = [s \in AllStateIds |-> 0]
    /\ lastCall = NoCall
    /\ watch = NoWatch
    /\ driver = [time |-> 0, called |-> {}]
    /\ cli = NoCli

\* The driver asks for a cost of the current step it has not asked for yet
NaiveCost ==
    \E c \in StepCalls(driver.time) \ driver.called :
        /\ driver.time + 1 < NumColumns
        /\ \E garbage \in (IF RightInBounds(c.lhs, c.rhs) THEN {InvalidStateId} ELSE Garbage) :
           \E segv \in (IF RightInBounds(c.lhs, c.rhs) THEN {FALSE} ELSE BOOLEAN) :
           \E graph \in (IF ShouldRoute(states[c.lhs])
                            /\ IsValid(RightStateId(c.lhs, c.rhs, garbage))
                         THEN Graphs(RightStateId(c.lhs, c.rhs, garbage).time)
                         ELSE {EmptyMap}) :
               Cost(c.lhs, c.rhs, garbage, segv, graph)
        /\ driver' = [driver EXCEPT !.called = @ \cup {c}]
        /\ UNCHANGED <<watch, cli>>

\* The driver makes l, a State of the current column whose transition to r it
\* has asked for, the predecessor of r
NaivePredecessor ==
    \E c \in driver.called :
        /\ SetPredecessor(c.rhs, c.lhs)
        /\ UNCHANGED <<watch, driver, cli>>

\* Every cost of the step has been asked for: the driver moves to the next column
NaiveAdvance ==
    /\ phase = "ready"
    /\ driver.time + 1 < NumColumns
    /\ driver.called = StepCalls(driver.time)
    /\ driver' = [time |-> driver.time + 1, called |-> {}]
    /\ UNCHANGED coreVars
    /\ UNCHANGED <<watch, cli>>

NaiveNext ==
    \/ Construct
    \/ NaiveCost
    \/ NaivePredecessor
    \/ NaiveAdvance

NaiveSpec == NaiveInit /\ [][NaiveNext]_vars

----------------------------------------------------------------------------
\* parse_common_args: the command line handling shared by the executables

\* No value: an option not given on the command line, a key not in the config
Absent == -1

\* result.count("concurrency") and result["concurrency"].as<uint32_t>()
CliConcurrency == {Absent, 0, 2}

\* mjolnir.concurrency in the configuration that is loaded
ConfigConcurrency == {Absent, 0, 4}

\* std::thread::hardware_concurrency(), which is 0 when it cannot be computed
HardwareConcurrency == {0, 8}

\* result["config"]: not given, naming a regular file, naming anything else
ConfigArgs == {"absent", "regular_file", "not_a_file"}

\* cxxopts::ParseResult
ParseResults ==
    [help : BOOLEAN, version : BOOLEAN, inline_config : BOOLEAN,
     config : ConfigArgs, concurrency : CliConcurrency]

\* The configuration document named by the arguments: its mjolnir.concurrency
\* and whether it has the subtree of the logging key
Documents == [concurrency : ConfigConcurrency, logging : BOOLEAN]

\* valhalla::config() before valhalla::configuration::configure
NotConfigured == [from |-> "none", concurrency |-> Absent, logging |-> FALSE]

\* valhalla::configuration::configure: the ptree valhalla::config() returns afterwards
configure(from, document) ==
    [from |-> from, concurrency |-> document.concurrency, logging |-> document.logging]

\* Variant of ReturnsFalse: version is not looked at
ReturnsFalseHelpOnly(result) == result.help

\* The two early returns: result.count("help"), result.count("version")
ReturnsFalse(result) == result.help \/ result.version

\* Which configuration is read: the inline one first, else a regular file, else none
ConfigSource(result) ==
    IF result.inline_config THEN "inline"
    ELSE IF result.config = "regular_file" THEN "file"
    ELSE "none"

\* num_threads: std::max(1U, command line ? command line : conf.get(key, hardware))
NumThreads(result, conf, hardware) ==
    Max(1, IF result.concurrency # Absent THEN result.concurrency
           ELSE IF conf.concurrency # Absent THEN conf.concurrency
           ELSE hardware)

\* conf.put<uint32_t>("mjolnir.concurrency", num_threads) on the local ptree
\* conf, which auto conf = valhalla::config() made a copy of the configuration
put(conf, num_threads) == [conf EXCEPT !.concurrency = num_threads]

\* The call about to be made
Called(result, document, hardware, use_threads) ==
    [pc |-> "called", result |-> result, document |-> document, hardware |-> hardware,
     use_threads |-> use_threads, global |-> NotConfigured, conf |-> NotConfigured,
     logging_configured |-> FALSE, num_threads |-> Absent, printed |-> "none"]

ArgsInit ==
    /\ phase = "new"
    /\ config = CHOOSE c \in ValidConfigs : TRUE
    /\ measurement = CHOOSE m \in Traces : TRUE
    /\ states = [s \in AllStateIds |-> NewState]
    /\ pred = [s \in AllStateIds |-> InvalidStateId]
    /\ expandCount = [s \in AllStateIds |-> 0]
    /\ setCount = [s \in AllStateIds |-> 0]
    /\ lastCall = NoCall
    /\ watch = NoWatch
    /\ driver = NoDriver
    /\ \E result \in ParseResults : \E document \in Documents :
       \E hardware \in HardwareConcurrency : \E use_threads \in BOOLEAN :
           cli = Called(result, document, hardware, use_threads)

\* parse_common_args
ParseCommonArgs ==
    /\ cli.pc = "called"
    /\ LET result == cli.result
           global == configure(ConfigSource(result), cli.document)
           conf == global
           num_threads == NumThreads(result, conf, cli.hardware)
       IN  cli' =
             IF ReturnsFalse(result)
             THEN [cli EXCEPT !.pc = "false",
                              !.printed = IF result.help THEN "help" ELSE "version"]
             ELSE IF ConfigSource(result) = "none"
             THEN [cli EXCEPT !.pc = "OptionException"]
             ELSE [cli EXCEPT !.pc = "true",
                              !.global = global,
                              !.logging_configured = conf.logging,
                              !.conf = IF cli.use_threads THEN put(conf, num_threads) ELSE conf,
                              !.num_threads = IF cli.use_threads THEN num_threads ELSE Absent]
    /\ UNCHANGED coreVars
    /\ UNCHANGED <<watch, driver>>

ArgsNext == ParseCommonArgs

ArgsSpec == ArgsInit /\ [][ArgsNext]_vars

----------------------------------------------------------------------------
\* Properties

\* The step is a call cost(lhs, rhs) whose record differs from the previous one
IsCall == lastCall' # lastCall

\* The great-circle distance and the epoch-time difference of the two
\* measurements of the last call, read from the measurements directly
CallGc == LET a == measurement[lastCall.lhs.time].lnglat
              b == measurement[lastCall.rhs.time].lnglat
          IN  IF a <= b THEN b - a ELSE a - b

CallClk == measurement[lastCall.rhs.time].epoch_time - measurement[lastCall.lhs.time].epoch_time

\* C1 (idempotent routing): over any sequence of cost() calls the expander is
\* invoked at most once for each left State, and a call whose left State is
\* already routed is answered from that State's cache: it invokes no
\* expansion and leaves every State as it was.
C1_IdempotentRouting ==
    [][\A s \in AllStateIds :
          /\ expandCount'[s] <= 1
          /\ states[s].routed =>
                /\ expandCount'[s] = expandCount[s]
                /\ (IsCall /\ lastCall'.lhs = s /\ lastCall'.outcome = "ok") =>
                      /\ ~lastCall'.expanded
                      /\ states' = states
                      /\ lastCall'.label = last_label(states[s], lastCall'.looked)]_vars

\* A call answered with a label from the cache of a left State that an
\* earlier call routed
C1_Witness ==
    /\ lastCall.outcome = "ok"
    /\ ~lastCall.expanded
    /\ lastCall.label # NoLabel
    /\ expandCount[lastCall.lhs] = 1
    /\ states[lastCall.lhs].routed

\* C2 (the label looked up is the one of rhs itself): every call that returns
\* looks up, on the left State, the label cached for the StateId rhs, and its
\* result is computed from that label.
C2_LooksUpRhs ==
    lastCall.outcome = "ok" =>
        /\ lastCall.looked = lastCall.rhs
        /\ lastCall.label = last_label(states[lastCall.lhs], lastCall.rhs)

\* C3 (sentinel semantics): a call that returns normally returns -1.0 if and
\* only if the expansion run for lhs returned no reached label for rhs.
C3_SentinelIffNoLabel ==
    lastCall.outcome = "ok" =>
        (lastCall.result = -(2 * config.beta)
            <=> lastCall.rhs \notin DOMAIN states[lastCall.lhs].label_idx)

\* C4 (predecessor-not-routed fault): a call whose left State is not routed
\* and whose Viterbi predecessor is valid but not routed raises the logic
\* error, invokes no expansion and leaves every State unchanged.
C4_PredecessorNotRoutedFault ==
    [][(/\ IsCall
        /\ ~states[lastCall'.lhs].routed
        /\ pred[lastCall'.lhs].time >= 0
        /\ ~states[pred[lastCall'.lhs]].routed)
       => /\ lastCall'.outcome = "logic_error"
          /\ ~lastCall'.expanded
          /\ expandCount' = expandCount
          /\ states' = states
          /\ ~states'[lastCall'.lhs].routed
          /\ ~states'[lastCall'.lhs].labelset]_vars

\* A call that raised the logic error: its left State has a predecessor that
\* is not routed, and is itself still not routed
C4_Witness ==
    /\ lastCall.outcome = "logic_error"
    /\ pred[lastCall.lhs].time >= 0
    /\ ~states[pred[lastCall.lhs]].routed
    /\ ~states[lastCall.lhs].routed
    /\ expandCount[lastCall.lhs] = 0

\* C5 as stated (budget clamping): the distance ceiling given to the
\* expander, and the capacity given to the LabelSet, never exceed
\* breakage_distance.
C5_CeilingWithinBreakage ==
    lastCall.expanded =>
        /\ lastCall.expansion.max_route_distance <= config.breakage_distance
        /\ lastCall.expansion.capacity <= config.breakage_distance

\* C5 as amended: the distance ceiling never exceeds breakage_distance rounded
\* up to a whole number (it is a whole number below breakage_distance + 1),
\* and the LabelSet capacity never exceeds the larger of that ceiling and 1.
C5_CeilingWithinRoundedBreakage ==
    lastCall.expanded =>
        /\ lastCall.expansion.max_route_distance % 2 = 0
        /\ lastCall.expansion.max_route_distance < config.breakage_distance + 2
        /\ lastCall.expansion.capacity % 2 = 0
        /\ \/ lastCall.expansion.capacity < config.breakage_distance + 2
           \/ lastCall.expansion.capacity = 2

\* An expansion clamped by a breakage_distance that is below 1 and not whole:
\* the ceiling given to the expander lies above breakage_distance
C5_Witness ==
    /\ lastCall.expanded
    /\ config.breakage_distance % 2 = 1
    /\ config.breakage_distance < 2
    /\ CallGc * config.max_route_distance_factor > config.breakage_distance
    /\ lastCall.expansion.max_route_distance > config.breakage_distance

\* C6 (breakage): if every path of the graph from the left candidate to the
\* candidate of rhs is longer than min(gc_dist * max_route_distance_factor,
\* breakage_distance) or takes longer than clk_dist * max_route_time_factor,
\* the call returns -1.0.  (Stated for the call that runs the expansion,
\* whose graph is on record.)
C6_Breakage ==
    (/\ lastCall.outcome = "ok"
     /\ lastCall.expanded
     /\ lastCall.expansion.graph_time = lastCall.rhs.time
     /\ \A p \in lastCall.expansion.graph[lastCall.rhs] :
           \/ p.distance > (IF CallGc * config.max_route_distance_factor <= config.breakage_distance
                            THEN CallGc * config.max_route_distance_factor
                            ELSE config.breakage_distance)
           \/ p.secs > CallClk * config.max_route_time_factor)
    => lastCall.result = -(2 * config.beta)

\* C7 (degenerate coincidence): a call for a left State that is not yet
\* routed, between coincident measurements (gc_dist = 0), that returns
\* normally has constructed the LabelSet with capacity >= 1 and invoked the
\* expander exactly once, and the left State is routed afterwards.
C7_DegenerateCoincidence ==
    [][(/\ IsCall
        /\ lastCall'.outcome = "ok"
        /\ ~states[lastCall'.lhs].routed
        /\ measurement[lastCall'.lhs.time].lnglat = measurement[lastCall'.rhs.time].lnglat)
       => /\ lastCall'.expanded
          /\ lastCall'.expansion.capacity >= 2
          /\ expandCount[lastCall'.lhs] = 0
          /\ expandCount'[lastCall'.lhs] = 1
          /\ states'[lastCall'.lhs].routed]_vars

\* An expansion between coincident measurements: the distance ceiling is 0,
\* the LabelSet capacity is 1 and the left State is routed
C7_Witness ==
    /\ lastCall.outcome = "ok"
    /\ lastCall.expanded
    /\ CallGc = 0
    /\ lastCall.expansion.max_route_distance = 0
    /\ lastCall.expansion.capacity = 2
    /\ expandCount[lastCall.lhs] = 1
    /\ states[lastCall.lhs].routed

\* C8 (transition cost value): whenever the looked-up State has a label, the
\* call returns turn_cost + (1 / beta) * (|cost - gc_dist| + |secs - clk_dist|),
\* with gc_dist and clk_dist those of the measurements at lhs.time() and
\* rhs.time().  (Both sides are multiplied by 2 * beta.)
C8_TransitionCostValue ==
    (lastCall.outcome = "ok" /\ lastCall.looked \in DOMAIN states[lastCall.lhs].label_idx) =>
        LET label == states[lastCall.lhs].label_idx[lastCall.looked]
            dd == label.cost - CallGc
            dt == label.secs - CallClk
        IN  lastCall.result =
                config.beta * label.turn_cost
                  + (IF dd < 0 THEN -dd ELSE dd) + (IF dt < 0 THEN -dt ELSE dt)

\* The spec's detour example: route 250, gc 100, secs 20, clk 10, beta 5,
\* turn cost 0, returned value 32 (320 over the denominator 10)
C8_Witness ==
    /\ lastCall.outcome = "ok"
    /\ config.beta = 5
    /\ lastCall.label.cost = 500
    /\ lastCall.label.secs = 40
    /\ lastCall.label.turn_cost = 0
    /\ CallGc = 200
    /\ CallClk = 20
    /\ lastCall.result = 320

\* C9 (return semantics): every returned value is either the sentinel -1.0,
\* when no label was found, or a non-negative value, when a label (whose turn
\* cost is >= 0) was found; a successful cost is never negative and never
\* the sentinel.
C9_ReturnSemantics ==
    lastCall.outcome = "ok" =>
        \/ /\ lastCall.looked \notin DOMAIN states[lastCall.lhs].label_idx
           /\ lastCall.result = -(2 * config.beta)
        \/ /\ lastCall.looked \in DOMAIN states[lastCall.lhs].label_idx
           /\ states[lastCall.lhs].label_idx[lastCall.looked].turn_cost >= 0
           /\ lastCall.result >= 0
           /\ lastCall.result # -(2 * config.beta)

\* A successful call whose cost is exactly 0 (the route matches the straight
\* line), which a caller must tell from the sentinel
C9_Witness ==
    /\ lastCall.outcome = "ok"
    /\ lastCall.label # NoLabel
    /\ lastCall.result = 0
    /\ CallGc > 0

\* C10 (state mutation frame): a step changes a State only if it is a call
\* that runs UpdateRoute, and then only the State identified by lhs, which
\* goes from not routed, without labelset and lookup, to routed with its
\* labelset; routed never goes back to false, and SetRoute is applied to a
\* State at most once.
C10_MutationFrame ==
    [][\A s \in AllStateIds :
          /\ states'[s] # states[s] =>
                /\ IsCall
                /\ lastCall'.expanded
                /\ s = lastCall'.lhs
                /\ ~states[s].routed /\ ~states[s].labelset /\ states[s].label_idx = EmptyMap
                /\ states'[s].routed /\ states'[s].labelset
          /\ states[s].routed => states'[s].routed
          /\ setCount'[s] <= 1
          /\ setCount'[s] # setCount[s] => states[s].routed # states'[s].routed]_vars

\* A call routed its left State and cached a label on it while the State it
\* was asked about, and every other State, is still as constructed
C10_Witness ==
    /\ lastCall.expanded
    /\ states[lastCall.lhs].routed
    /\ states[lastCall.lhs].label_idx # EmptyMap
    /\ setCount[lastCall.lhs] = 1
    /\ \A s \in AllStateIds \ {lastCall.lhs} : states[s] = NewState /\ setCount[s] = 0

\* C11 (construction faults): construction with beta <= 0 or with
\* turn_penalty_factor < 0 fails with invalid_argument and leaves no usable
\* model (no call is ever served); construction with beta > 0 and
\* turn_penalty_factor >= 0 succeeds.
C11_ConstructionFaults ==
    phase # "new" =>
        /\ (config.beta <= 0 \/ config.turn_penalty_factor < 0) =>
              /\ phase = "invalid_argument"
              /\ lastCall = NoCall
              /\ \A s \in AllStateIds : states[s] = NewState
        /\ (config.beta > 0 /\ config.turn_penalty_factor >= 0) =>
              phase \in {"ready", "crashed"}

\* Construction with beta = 0 has failed
C11_Witness ==
    /\ phase = "invalid_argument"
    /\ config.beta = 0
    /\ config.turn_penalty_factor >= 0

\* C12 (turn table shape): after a successful construction
\* table[0] = turn_penalty_factor, table[180] = turn_penalty_factor * exp(-4)
\* (0.018316 to six decimals), table[i] >= table[i + 1] for i in 0 .. 179,
\* and with a zero turn_penalty_factor every entry is zero.
C12_TurnTableShape ==
    phase = "ready" =>
        /\ turn_cost_table(0) = config.turn_penalty_factor * 1000000
        /\ turn_cost_table(180) = config.turn_penalty_factor * 18316
        /\ \A i \in 0 .. 179 : turn_cost_table(i) >= turn_cost_table(i + 1)
        /\ config.turn_penalty_factor = 0 => \A i \in 0 .. 180 : turn_cost_table(i) = 0

\* A constructed model with a positive turn_penalty_factor, whose table
\* falls strictly from its first to its last entry, which is not zero
C12_Witness ==
    /\ phase = "ready"
    /\ config.turn_penalty_factor > 0
    /\ turn_cost_table(0) > turn_cost_table(90)
    /\ turn_cost_table(90) > turn_cost_table(180)
    /\ turn_cost_table(180) > 0

\* C13 (concurrency written back): when parse_common_args with
\* use_threads = true returns true, mjolnir.concurrency in the configuration
\* the program reads afterwards (valhalla::config()) is the chosen thread
\* count: the command line's value if given, else the configuration's, else
\* the hardware thread count, and never less than 1.
C13_ConcurrencyInConfig ==
    (cli.pc = "true" /\ cli.use_threads) =>
        LET chosen == IF cli.result.concurrency # Absent THEN cli.result.concurrency
                      ELSE IF cli.document.concurrency # Absent THEN cli.document.concurrency
                      ELSE cli.hardware
        IN  cli.global.concurrency = IF chosen < 1 THEN 1 ELSE chosen

\* C14 (outcomes of parse_common_args): it returns false exactly when help
\* or version is requested, whatever the configuration arguments; otherwise
\* it throws cxxopts::OptionException when neither an inline-config nor a
\* config naming a regular file is given, and then neither logging nor
\* concurrency has been configured; in every remaining case it returns true.
C14_Outcomes ==
    cli.pc \notin {"none", "called"} =>
        LET requested == cli.result.help \/ cli.result.version
            supplied == cli.result.inline_config \/ cli.result.config = "regular_file"
        IN  /\ (cli.pc = "false") <=> requested
            /\ requested => cli.global = NotConfigured
            /\ (cli.pc = "OptionException") <=> (~requested /\ ~supplied)
            /\ cli.pc = "OptionException" =>
                  /\ ~cli.logging_configured
                  /\ cli.num_threads = Absent
                  /\ cli.conf = NotConfigured
            /\ (cli.pc = "true") <=> (~requested /\ supplied)

\* Version requested without any configuration: false is returned, nothing thrown
C14_Witness ==
    /\ cli.pc = "false"
    /\ ~cli.result.help
    /\ cli.result.version
    /\ ~cli.result.inline_config
    /\ cli.result.config = "absent"

\* C15 (destination set): when UpdateRoute(lhs, rhs) runs, the destinations
\* given to the expander after the left candidate are exactly the States of
\* the column at rhs.time() whose Viterbi predecessor is invalid at that
\* moment, in column order; States with a predecessor are not destinations.
C15_DestinationSet ==
    [][(IsCall /\ lastCall'.expanded)
       => lastCall'.expansion.destinations =
              SelectSeq([i \in 1 .. ColumnSize(lastCall'.rhs.time) |->
                            StateId(lastCall'.rhs.time, i - 1)],
                        LAMBDA s : pred[s].time < 0)]_vars

\* C16 (seed edgelabel): the inbound edgelabel given to the expander is null
\* when lhs has no valid Viterbi predecessor, and otherwise exactly the label
\* the (routed) predecessor State caches for the left State, null if it
\* caches none.
C16_SeedEdgeLabel ==
    [][(IsCall /\ lastCall'.expanded)
       => LET lhs == lastCall'.lhs
              edgelabel == lastCall'.expansion.edgelabel
          IN  IF pred[lhs].time < 0
              THEN edgelabel = NoLabel
              ELSE /\ states[pred[lhs]].routed
                   /\ edgelabel = IF lhs \in DOMAIN states[pred[lhs]].label_idx
                                  THEN states[pred[lhs]].label_idx[lhs]
                                  ELSE NoLabel]_vars

\* An expansion seeded with the label its predecessor caches for the left State
C16_Witness ==
    /\ lastCall.expanded
    /\ pred[lastCall.lhs].time >= 0
    /\ lastCall.expansion.edgelabel # NoLabel
    /\ lastCall.expansion.edgelabel = states[pred[lastCall.lhs]].label_idx[lastCall.lhs]

\* C18 (index safety): for every call whose lhs and rhs are valid StateIds of
\* their columns, every column element the call indexes lies within its
\* column, also when the right column has fewer States than lhs.id() + 1.
C18_IndexSafety ==
    lastCall.outcome # "none" =>
        \A a \in ColumnAccesses(lastCall.lhs, lastCall.rhs) :
            0 <= a.index /\ a.index < ColumnSize(a.time)

\* C17 (naive driver): under the naive driver, which takes the columns in
\* increasing time and asks every cost of a step before moving on, choosing
\* predecessors among the States of the previous column, every predecessor
\* of a State is routed, so the logic error is never raised.
C17_NaiveDriverNeverFaults ==
    /\ lastCall.outcome # "logic_error"
    /\ \A s \in AllStateIds : pred[s].time >= 0 => states[pred[s]].routed

\* In the second step UpdateRoute ran for a left State that has a predecessor
C17_Witness ==
    /\ driver.time = 1
    /\ lastCall.expanded
    /\ lastCall.lhs.time = 1
    /\ pred[lastCall.lhs].time = 0
    /\ states[pred[lastCall.lhs]].routed

\* C19 (result stability): once cost(lhs, rhs) has returned a value, every
\* later call cost(lhs, rhs) that returns gives the same value, whatever calls
\* were made and whatever predecessors were changed in between.
C19_ResultStability ==
    (/\ watch.lhs.time >= 0
     /\ lastCall.outcome = "ok"
     /\ lastCall.lhs = watch.lhs
     /\ lastCall.rhs = watch.rhs)
    => lastCall.result = watch.result

\* C20 (order dependence): if rhs already has a valid Viterbi predecessor
\* when lhs is first routed, rhs is left out of that expansion, so
\* cost(lhs, rhs) returns -1.0 on that call and on every later call.
C20_ExcludedStaysUnreached ==
    watch.excluded =>
        /\ watch.result = -(2 * config.beta)
        /\ (/\ lastCall.outcome = "ok"
            /\ lastCall.lhs = watch.lhs
            /\ lastCall.rhs = watch.rhs)
           => lastCall.result = -(2 * config.beta)

====
